---- MODULE Spec2Model ----
(***************************************************************************)
(* Model of the realtime session hook (useRealtimeSession.ts) and of the   *)
(* handoff graph of the DoorDash multi-agent scenario                      *)
(* (doorDashMultiAgent.ts).                                                *)
(*                                                                         *)
(* A connect() invocation is an async function: it runs synchronously up   *)
(* to its first await (the credential fetch), resumes when that promise    *)
(* settles, runs up to its second await (the transport connect) and        *)
(* resumes again when that one settles.  Every synchronous stretch is one  *)
(* action.  The session a connect() invocation constructs is identified    *)
(* by the number of that invocation; 0 stands for null.                    *)
(***************************************************************************)
EXTENDS Integers, Sequences, FiniteSets, TLC

\* Number of connect() invocations in a behaviour.
MaxCalls == 2

Calls == 1..MaxCalls

NoSession == 0

\* ------------------------------------------------------------------------
\* Static configuration: the scenario and its handoff graph

conciergeAgent == "conciergeAgent"
orderingAgent == "orderingAgent"
recommendationAgent == "recommendationAgent"
promoAgent == "promoAgent"
refundAgent == "refundAgent"

doorDashMultiAgentScenario ==
    <<conciergeAgent, orderingAgent, recommendationAgent, promoAgent, refundAgent>>

Agents == {doorDashMultiAgentScenario[i] : i \in 1..Len(doorDashMultiAgentScenario)}

\* The scenario and handoffs arrays of the file's earlier definition, which
\* has no promoAgent.
earlierScenario == <<conciergeAgent, orderingAgent, recommendationAgent, refundAgent>>

earlierHandoffs ==
    [a \in {earlierScenario[i] : i \in 1..Len(earlierScenario)} |->
        CASE a = conciergeAgent -> {orderingAgent, recommendationAgent, refundAgent}
          [] a = orderingAgent -> {conciergeAgent, recommendationAgent, refundAgent}
          [] a = recommendationAgent -> {conciergeAgent, orderingAgent}
          [] a = refundAgent -> {conciergeAgent, orderingAgent}]

handoffs_UnknownTarget ==
    [a \in Agents |->
        CASE a = conciergeAgent -> {orderingAgent, recommendationAgent, refundAgent, promoAgent}
          [] a = orderingAgent -> {conciergeAgent, recommendationAgent, refundAgent, promoAgent}
          [] a = recommendationAgent -> {conciergeAgent, orderingAgent, promoAgent}
          [] a = promoAgent -> {conciergeAgent, orderingAgent, recommendationAgent}
          [] a = refundAgent -> {conciergeAgent, orderingAgent, "supportAgent"}]

handoffs_OneWay ==
    [a \in Agents |->
        CASE a = conciergeAgent -> {orderingAgent, recommendationAgent, refundAgent, promoAgent}
          [] a = orderingAgent -> {conciergeAgent, recommendationAgent, refundAgent, promoAgent}
          [] a = recommendationAgent -> {conciergeAgent, orderingAgent, promoAgent}
          [] a = promoAgent -> {conciergeAgent, orderingAgent}
          [] a = refundAgent -> {conciergeAgent, orderingAgent, promoAgent}]

handoffs_DeadEnd ==
    [a \in Agents |->
        CASE a = conciergeAgent -> {orderingAgent, recommendationAgent, refundAgent, promoAgent}
          [] a = orderingAgent -> {conciergeAgent, recommendationAgent, refundAgent, promoAgent}
          [] a = recommendationAgent -> {conciergeAgent, orderingAgent, promoAgent}
          [] a = promoAgent -> {conciergeAgent, orderingAgent, recommendationAgent}
          [] a = refundAgent -> {}]

\* The handoffs arrays after the five push statements.
handoffs ==
    [a \in Agents |->
        CASE a = conciergeAgent -> {orderingAgent, recommendationAgent, refundAgent, promoAgent}
          [] a = orderingAgent -> {conciergeAgent, recommendationAgent, refundAgent, promoAgent}
          [] a = recommendationAgent -> {conciergeAgent, orderingAgent, promoAgent}
          [] a = promoAgent -> {conciergeAgent, orderingAgent, recommendationAgent}
          [] a = refundAgent -> {conciergeAgent, orderingAgent, promoAgent}]

rootAgent_Last == doorDashMultiAgentScenario[Len(doorDashMultiAgentScenario)]

\* initialAgents[0]
rootAgent == doorDashMultiAgentScenario[1]

\* Name of the function-call item that ends the history of an agent_handoff
\* event: the literal prefix followed by the target agent's name.
TransferName(a) == [prefix |-> "transfer_to_", rest |-> a]

\* lastMessage.name.split("transfer_to_")[1]
SplitTransfer(name) == IF name.prefix = "transfer_to_" THEN name.rest ELSE "undefined"

\* ------------------------------------------------------------------------
\* State

VARIABLES
    sessionRef,     \* sessionRef.current: NoSession or a session
    status,         \* the SessionStatus React state
    pc,             \* position of each connect() invocation
    closed,         \* sessions on which close() has been called
    registered,     \* session the effects' listeners are attached to
    toolInFlight,   \* sessions with a tool call started and not yet ended
    activeAgent,    \* agent the onAgentHandoff consumer has selected
    rejectedItems,  \* number of HandoffRejected history items
    keyCalls,       \* number of getEphemeralKey() invocations
    lastOp,         \* the handler or continuation that ran last
    lastErr,        \* error thrown by it, or "none"
    notified,       \* onConnectionChange/logClientEvent calls it made
    sentEv,         \* what it sent to the held session and its transport
    dispatched,     \* session whose inbound event it handled, or NoSession
    dbConfigured,   \* process.env.NEON_DATABASE_URL is set on the server
    orders,         \* rows of the doordash_orders table, in id order
    tpc,            \* position of the running tool execute
    tcall,          \* the tool being executed and its input
    requests,       \* requests that execute has issued
    response,       \* what the last request was answered with
    result,         \* what the last execute returned or threw
    history,        \* the transcript items, in order of creation
    logged,         \* events passed to logServerEvent for the last inbound event
    ek,             \* number of the provider invocation each connect() awaits
    sessions        \* arguments each constructed session was built and connected with

vars == <<sessionRef, status, pc, closed, registered, toolInFlight, activeAgent,
          rejectedItems, keyCalls, lastOp, lastErr, notified, sentEv, dispatched,
          dbConfigured, orders, tpc, tcall, requests, response, result,
          history, logged, ek, sessions>>

\* What connect() keeps of the credential and of the session it builds.
connVars == <<ek, sessions>>

hookVars == <<sessionRef, status, pc, closed, registered, toolInFlight,
              rejectedItems, keyCalls, lastErr, notified, sentEv, dispatched,
              connVars>>

toolVars == <<dbConfigured, orders, tpc, tcall, requests, response, result>>

histVars == <<history, logged>>

sideVars == <<toolVars, histVars>>

\* Nothing sent, answered or returned.
None == [kind |-> "none"]

\* No tool is executing and the order table is empty.
ToolIdle ==
    /\ orders = <<>>
    /\ tpc = "idle"
    /\ tcall = None
    /\ requests = <<>>
    /\ response = None
    /\ result = None

\* The transcript is empty.
HistIdle ==
    /\ history = <<>>
    /\ logged = <<>>

eventVars == <<registered, toolInFlight, activeAgent, rejectedItems>>

Init ==
    /\ sessionRef = NoSession
    /\ status = "DISCONNECTED"
    /\ pc = [c \in Calls |-> "idle"]
    /\ closed = {}
    /\ registered = NoSession
    /\ toolInFlight = {}
    /\ activeAgent = rootAgent
    /\ rejectedItems = 0
    /\ keyCalls = 0
    /\ lastOp = "init"
    /\ lastErr = "none"
    /\ notified = <<>>
    /\ sentEv = <<>>
    /\ dispatched = NoSession
    /\ dbConfigured = TRUE
    /\ ToolIdle
    /\ HistIdle
    /\ ek = [c \in Calls |-> 0]
    /\ sessions = [c \in Calls |-> None]

\* Sessions constructed so far (new RealtimeSession has run).
constructed ==
    {c \in Calls : pc[c] \in {"awaitConnect", "done", "transportFailed", "typeError"}}

\* Sessions whose transport connect has resolved.
transportUp == {c \in Calls : pc[c] \in {"done", "typeError"}}

\* connect() invocations suspended at an await.
inFlight == {c \in Calls : pc[c] \in {"awaitKey", "awaitConnect"}}

\* The step of a handler: what it is, what it threw, notified and sent.
Ran(op, err, notes, evs, sess) ==
    /\ lastOp' = op
    /\ lastErr' = err
    /\ notified' = notes
    /\ sentEv' = evs
    /\ dispatched' = sess

\* ------------------------------------------------------------------------
\* connect / disconnect

\* The guard of connect(): if (sessionRef.current) return;
AlreadyActive_NoGuard == FALSE

AlreadyActive == sessionRef # NoSession

\* connect() up to `await getEphemeralKey()`.
Connect(c) ==
    /\ pc[c] = "idle"
    /\ \A d \in Calls : d < c => pc[d] # "idle"
    /\ IF AlreadyActive
         THEN /\ pc' = [pc EXCEPT ![c] = "skipped"]
              /\ UNCHANGED <<status, keyCalls, ek>>
              /\ Ran("connect", "none", <<>>, <<>>, NoSession)
         ELSE /\ status' = "CONNECTING"
              /\ keyCalls' = keyCalls + 1
              /\ ek' = [ek EXCEPT ![c] = keyCalls + 1]
              /\ pc' = [pc EXCEPT ![c] = "awaitKey"]
              /\ Ran("connect", "none", <<"CONNECTING">>, <<>>, NoSession)
    /\ UNCHANGED <<sessionRef, closed, sessions>>
    /\ UNCHANGED eventVars
    /\ UNCHANGED sideVars

\* new RealtimeSession(agent, ...) followed by connect({ apiKey }): the agent
\* the session starts with and the key its transport connects with.
NewSession(agent, apiKey) == [kind |-> "session", agent |-> agent, apiKey |-> apiKey]

\* The credential fetch resolves: the session is constructed, stored in
\* sessionRef and its transport connect is started.
KeyResolved(c) ==
    /\ pc[c] = "awaitKey"
    /\ sessionRef' = c
    /\ sessions' = [sessions EXCEPT ![c] = NewSession(rootAgent, ek[c])]
    /\ pc' = [pc EXCEPT ![c] = "awaitConnect"]
    /\ Ran("keyResolved", "none", <<>>, <<>>, NoSession)
    /\ UNCHANGED <<status, closed, keyCalls, ek>>
    /\ UNCHANGED eventVars
    /\ UNCHANGED sideVars

\* The credential fetch rejects: connect() rejects at line 156.
KeyRejected(c) ==
    /\ pc[c] = "awaitKey"
    /\ pc' = [pc EXCEPT ![c] = "keyFailed"]
    /\ Ran("keyRejected", "KeyError", <<>>, <<>>, NoSession)
    /\ UNCHANGED <<sessionRef, status, closed, keyCalls>>
    /\ UNCHANGED eventVars
    /\ UNCHANGED sideVars
    /\ UNCHANGED connVars

\* The transport connect resolves: sessionRef.current is read again
\* (a TypeError when it is null by now), then updateStatus('CONNECTED').
TransportResolved(c) ==
    /\ pc[c] = "awaitConnect"
    /\ IF sessionRef = NoSession
         THEN /\ pc' = [pc EXCEPT ![c] = "typeError"]
              /\ UNCHANGED status
              /\ Ran("transportResolved", "TypeError", <<>>, <<>>, NoSession)
         ELSE /\ pc' = [pc EXCEPT ![c] = "done"]
              /\ status' = "CONNECTED"
              /\ Ran("transportResolved", "none", <<"CONNECTED">>, <<>>, NoSession)
    /\ UNCHANGED <<sessionRef, closed, keyCalls>>
    /\ UNCHANGED eventVars
    /\ UNCHANGED sideVars
    /\ UNCHANGED connVars

\* The transport connect rejects: connect() rejects at line 201.
TransportRejected(c) ==
    /\ pc[c] = "awaitConnect"
    /\ pc' = [pc EXCEPT ![c] = "transportFailed"]
    /\ Ran("transportRejected", "TransportError", <<>>, <<>>, NoSession)
    /\ UNCHANGED <<sessionRef, status, closed, keyCalls>>
    /\ UNCHANGED eventVars
    /\ UNCHANGED sideVars
    /\ UNCHANGED connVars

Disconnect ==
    /\ closed' = closed \cup ({sessionRef} \ {NoSession})
    /\ sessionRef' = NoSession
    /\ status' = "DISCONNECTED"
    /\ Ran("disconnect", "none", <<"DISCONNECTED">>, <<>>, NoSession)
    /\ UNCHANGED <<pc, keyCalls>>
    /\ UNCHANGED eventVars
    /\ UNCHANGED sideVars
    /\ UNCHANGED connVars

\* ------------------------------------------------------------------------
\* Message helpers

\* assertconnected(): throws when sessionRef.current is null.
assertconnected == sessionRef # NoSession

SendUserText ==
    /\ IF assertconnected
         THEN Ran("sendUserText", "none", <<>>, <<"sendMessage">>, NoSession)
         ELSE Ran("sendUserText", "NotConnected", <<>>, <<>>, NoSession)
    /\ UNCHANGED <<sessionRef, status, pc, closed, keyCalls>>
    /\ UNCHANGED eventVars
    /\ UNCHANGED sideVars
    /\ UNCHANGED connVars

\* Outbound events of pushToTalkStart, in the order they are sent.
PttStartEvents == <<"input_audio_buffer.clear">>

\* Outbound events of pushToTalkStop, in the order they are sent.
PttStopEvents_Swapped == <<"response.create", "input_audio_buffer.commit">>

PttStopEvents == <<"input_audio_buffer.commit", "response.create">>

PushToTalkStart ==
    /\ IF sessionRef = NoSession
         THEN Ran("pushToTalkStart", "none", <<>>, <<>>, NoSession)
         ELSE Ran("pushToTalkStart", "none", <<>>, PttStartEvents, NoSession)
    /\ UNCHANGED <<sessionRef, status, pc, closed, keyCalls>>
    /\ UNCHANGED eventVars
    /\ UNCHANGED sideVars
    /\ UNCHANGED connVars

PushToTalkStop ==
    /\ IF sessionRef = NoSession
         THEN Ran("pushToTalkStop", "none", <<>>, <<>>, NoSession)
         ELSE Ran("pushToTalkStop", "none", <<>>, PttStopEvents, NoSession)
    /\ UNCHANGED <<sessionRef, status, pc, closed, keyCalls>>
    /\ UNCHANGED eventVars
    /\ UNCHANGED sideVars
    /\ UNCHANGED connVars

\* sessionRef.current?.f(...): what reaches the held session, nothing when
\* sessionRef.current is null.
OptionalCall_Unchecked(evs) == evs

OptionalCall(evs) == IF sessionRef = NoSession THEN <<>> ELSE evs

Interrupt ==
    /\ Ran("interrupt", "none", <<>>, OptionalCall(<<"interrupt">>), NoSession)
    /\ UNCHANGED <<sessionRef, status, pc, closed, keyCalls>>
    /\ UNCHANGED eventVars
    /\ UNCHANGED sideVars
    /\ UNCHANGED connVars

\* Raw events a caller passes to sendEvent.
RawEvents == {"response.cancel"}

SendEvent(ev) ==
    /\ Ran("sendEvent", "none", <<>>, OptionalCall(<<ev>>), NoSession)
    /\ UNCHANGED <<sessionRef, status, pc, closed, keyCalls>>
    /\ UNCHANGED eventVars
    /\ UNCHANGED sideVars
    /\ UNCHANGED connVars

Mute(m) ==
    /\ Ran("mute", "none", <<>>,
           OptionalCall(<<IF m THEN "mute(true)" ELSE "mute(false)">>), NoSession)
    /\ UNCHANGED <<sessionRef, status, pc, closed, keyCalls>>
    /\ UNCHANGED eventVars
    /\ UNCHANGED sideVars
    /\ UNCHANGED connVars

\* ------------------------------------------------------------------------
\* Listener effects and inbound events

\* A render whose effect dependencies changed: the cleanups of the previous
\* run detach the listeners, then both effects attach them to the session
\* sessionRef holds now (to none when it is null).
RunEffects ==
    /\ registered' = sessionRef
    /\ Ran("effect", "none", <<>>, <<>>, NoSession)
    /\ UNCHANGED <<sessionRef, status, pc, closed, keyCalls>>
    /\ UNCHANGED <<toolInFlight, activeAgent, rejectedItems>>
    /\ UNCHANGED sideVars
    /\ UNCHANGED connVars

\* Sessions that take tool calls and handoffs from the model: connected
\* and not closed.
live == transportUp \ closed

\* handleAgentHandoff: the agent name passed to callbacks.onAgentHandoff.
handleAgentHandoff(name) == SplitTransfer(name)

\* The session emits agent_handoff for a transfer to agent a.
AgentHandoff(s, a) ==
    /\ s \in live
    /\ IF registered = s
         THEN /\ activeAgent' = handleAgentHandoff(TransferName(a))
              /\ Ran("handleAgentHandoff", "none", <<>>, <<>>, s)
         ELSE /\ UNCHANGED activeAgent
              /\ Ran("unhandled", "none", <<>>, <<>>, NoSession)
    /\ UNCHANGED <<sessionRef, status, pc, closed, keyCalls>>
    /\ UNCHANGED <<registered, toolInFlight, rejectedItems>>
    /\ UNCHANGED sideVars
    /\ UNCHANGED connVars

\* The session starts executing a tool call and emits agent_tool_start.
AgentToolStart(s) ==
    /\ s \in live
    /\ s \notin toolInFlight
    /\ toolInFlight' = toolInFlight \cup {s}
    /\ IF registered = s
         THEN Ran("handleAgentToolStart", "none", <<>>, <<>>, s)
         ELSE Ran("unhandled", "none", <<>>, <<>>, NoSession)
    /\ UNCHANGED <<sessionRef, status, pc, closed, keyCalls>>
    /\ UNCHANGED <<registered, activeAgent, rejectedItems>>
    /\ UNCHANGED sideVars
    /\ UNCHANGED connVars

\* A started tool call settles and the session emits agent_tool_end; close()
\* does not cancel the call, so this also happens on a closed session.
AgentToolEnd(s) ==
    /\ s \in toolInFlight
    /\ toolInFlight' = toolInFlight \ {s}
    /\ IF registered = s
         THEN Ran("handleAgentToolEnd", "none", <<>>, <<>>, s)
         ELSE Ran("unhandled", "none", <<>>, <<>>, NoSession)
    /\ UNCHANGED <<sessionRef, status, pc, closed, keyCalls>>
    /\ UNCHANGED <<registered, activeAgent, rejectedItems>>
    /\ UNCHANGED sideVars
    /\ UNCHANGED connVars

\* ------------------------------------------------------------------------
\* Specification

Next ==
    \/ \E c \in Calls : Connect(c)
    \/ \E c \in Calls : KeyResolved(c)
    \/ \E c \in Calls : KeyRejected(c)
    \/ \E c \in Calls : TransportResolved(c)
    \/ \E c \in Calls : TransportRejected(c)
    \/ Disconnect
    \/ SendUserText
    \/ PushToTalkStart
    \/ PushToTalkStop
    \/ Interrupt
    \/ \E ev \in RawEvents : SendEvent(ev)
    \/ \E m \in BOOLEAN : Mute(m)
    \/ RunEffects
    \/ \E s \in Calls, a \in Agents : AgentHandoff(s, a)
    \/ \E s \in Calls : AgentToolStart(s)
    \/ \E s \in Calls : AgentToolEnd(s)

Spec == Init /\ [][Next]_vars

\* A pending promise settles and a pending effect runs; nothing obliges the
\* caller to call connect, disconnect or any helper.
Settle ==
    \/ \E c \in Calls : KeyResolved(c) \/ KeyRejected(c)
    \/ \E c \in Calls : TransportResolved(c) \/ TransportRejected(c)

FairSpec == Spec /\ WF_vars(Settle)

TypeOK ==
    /\ sessionRef \in Calls \cup {NoSession}
    /\ status \in {"DISCONNECTED", "CONNECTING", "CONNECTED"}
    /\ closed \subseteq constructed
    /\ activeAgent \in Agents

\* ------------------------------------------------------------------------
\* Properties of connect / disconnect

\* C1: every session connect() has constructed is the one sessionRef holds
\* or has been closed, so at most one constructed session is not closed.
C1_SingleSession ==
    /\ \A s \in constructed : s = sessionRef \/ s \in closed
    /\ Cardinality(constructed \ closed) <= 1

\* C2: a connect() call made while status is CONNECTED is ignored: it is
\* skipped by the guard, constructs no session, does not call the credential
\* provider, notifies nothing and leaves status and sessionRef unchanged.
C2_ConnectIgnoredWhenConnected ==
    [][\A c \in Calls :
         (status = "CONNECTED" /\ Connect(c)) =>
            /\ pc'[c] = "skipped"
            /\ keyCalls' = keyCalls
            /\ constructed' = constructed
            /\ status' = status
            /\ sessionRef' = sessionRef
            /\ notified' = <<>>]_vars

C2_Witness ==
    /\ lastOp = "connect"
    /\ status = "CONNECTED"
    /\ \E c \in Calls : pc[c] = "skipped"
    /\ sessionRef \in transportUp

StatusTransitions ==
    { <<"DISCONNECTED", "CONNECTING">>,
      <<"CONNECTING", "CONNECTED">>,
      <<"CONNECTED", "DISCONNECTED">>,
      <<"CONNECTING", "DISCONNECTED">> }

\* C3: status only ever changes along DISCONNECTED -> CONNECTING ->
\* CONNECTED -> DISCONNECTED or CONNECTING -> DISCONNECTED; in particular
\* never from DISCONNECTED directly to CONNECTED.
C3_StatusTransitions ==
    [][status' # status => <<status, status'>> \in StatusTransitions]_vars

\* C4: disconnect() called when already DISCONNECTED raises no error and
\* changes nothing: status stays DISCONNECTED, sessionRef stays null and no
\* connection-change notification is emitted.
C4_DisconnectIdempotent ==
    [][(status = "DISCONNECTED" /\ sessionRef = NoSession /\ Disconnect) =>
          /\ status' = "DISCONNECTED"
          /\ sessionRef' = NoSession
          /\ lastErr' = "none"
          /\ notified' = <<>>]_vars

\* C5: sendUserText fails with the not-connected error whenever status is not
\* CONNECTED and forwards the message to the session only when status is
\* CONNECTED.
C5_SendUserTextNeedsConnected ==
    lastOp = "sendUserText" =>
        IF status = "CONNECTED"
          THEN lastErr = "none" /\ sentEv = <<"sendMessage">>
          ELSE lastErr = "NotConnected" /\ sentEv = <<>>

\* C6: a handoff directive naming an agent outside the departing agent's
\* handoffs leaves the active agent unchanged and adds exactly one
\* HandoffRejected history item.
C6_HandoffRejected ==
    [][\A s \in Calls, a \in Agents :
         (registered = s /\ a \notin handoffs[activeAgent] /\ AgentHandoff(s, a)) =>
            /\ activeAgent' = activeAgent
            /\ rejectedItems' = rejectedItems + 1]_vars

\* C7: no inbound event of a session that disconnect() has closed is
\* delivered to a handler.
C7_NoDispatchAfterDisconnect == dispatched \notin closed

\* A connect() invocation ended by a rejected credential fetch or a rejected
\* transport connect.
failedCalls == {c \in Calls : pc[c] \in {"keyFailed", "transportFailed"}}

\* C8: after the credential fetch or the transport connect of a connect()
\* has failed, status eventually is DISCONNECTED.
C8_FailureLeadsToDisconnected ==
    [](failedCalls # {} => <>(status = "DISCONNECTED"))

\* C9: a connect() call made after a failed connect(), with no connect() in
\* flight and no disconnect() since the failure, is not skipped by the guard.
C9_RetryAfterFailure ==
    [][\A c \in Calls :
         (failedCalls # {} /\ inFlight = {} /\ status = "CONNECTING" /\ Connect(c)) =>
            pc'[c] = "awaitKey"]_vars

\* C10: pushToTalkStart followed by pushToTalkStop raises no error and, with
\* a session held, sends exactly input_audio_buffer.clear,
\* input_audio_buffer.commit, response.create in that order; with no session
\* held the two calls send nothing.
C10_PushToTalkPair ==
    [][(lastOp = "pushToTalkStart" /\ PushToTalkStop) =>
          /\ lastErr = "none"
          /\ lastErr' = "none"
          /\ sentEv \o sentEv' =
                IF sessionRef # NoSession
                  THEN <<"input_audio_buffer.clear", "input_audio_buffer.commit",
                         "response.create">>
                  ELSE <<>>
          /\ UNCHANGED <<sessionRef, status>>]_vars

C10_Witness ==
    /\ lastOp = "pushToTalkStop"
    /\ sessionRef # NoSession
    /\ Len(sentEv) = 2

\* ------------------------------------------------------------------------
\* Values, strings and their conversions
\*
\* An optional value (undefined, a missing key, a null query parameter) is
\* the empty set, a present one the singleton of its value.  A string that
\* is converted or trimmed is the sequence of its characters.

Absent == {}

Some(v) == {v}

Get(o) == CHOOSE v \in o : TRUE

DigitChars == <<"0", "1", "2", "3", "4", "5", "6", "7", "8", "9">>

IsDigit(ch) == \E d \in 1..10 : DigitChars[d] = ch

DigitOf(ch) == (CHOOSE d \in 1..10 : DigitChars[d] = ch) - 1

RECURSIVE NatStr(_)
NatStr(n) ==
    IF n < 10 THEN <<DigitChars[n + 1]>>
    ELSE NatStr(n \div 10) \o <<DigitChars[(n % 10) + 1]>>

\* String(n) of a whole number n.
NumStr(n) == IF n < 0 THEN <<"-">> \o NatStr(0 - n) ELSE NatStr(n)

undefinedStr == <<"u", "n", "d", "e", "f", "i", "n", "e", "d">>

\* `${x}` of an optional whole number x.
TemplateStr(x) == IF x = Absent THEN undefinedStr ELSE NumStr(Get(x))

\* str.trim()
RECURSIVE Trim(_)
Trim(str) ==
    IF str = <<>> THEN <<>>
    ELSE IF Head(str) = " " THEN Trim(Tail(str))
    ELSE IF str[Len(str)] = " " THEN Trim(SubSeq(str, 1, Len(str) - 1))
    ELSE str

\* The longest prefix of str made of decimal digits.
LeadingDigits(str) ==
    LET n == CHOOSE k \in 0..Len(str) :
                /\ \A i \in 1..k : IsDigit(str[i])
                /\ k = Len(str) \/ ~IsDigit(str[k + 1])
    IN  SubSeq(str, 1, n)

RECURSIVE DigitsValue(_)
DigitsValue(d) ==
    IF d = <<>> THEN 0
    ELSE 10 * DigitsValue(SubSeq(d, 1, Len(d) - 1)) + DigitOf(d[Len(d)])

\* Number.parseInt(str, 10): Absent stands for NaN.  Number.parseFloat agrees
\* with it on the strings of whole numbers, the only numbers modelled.
ParseInt(str) ==
    LET t == Trim(str)
        signed == t # <<>> /\ Head(t) \in {"-", "+"}
        d == LeadingDigits(IF signed THEN Tail(t) ELSE t)
    IN  IF d = <<>> THEN Absent
        ELSE IF signed /\ Head(t) = "-" THEN Some(0 - DigitsValue(d))
        ELSE Some(DigitsValue(d))

\* JSON values: strings, numbers and arrays carry their type.
JStr(str) == [t |-> "string", v |-> str]

JArr(arr) == [t |-> "array", v |-> arr]

\* A number, kept by its decimal digits.
JNum(n) == [t |-> "number", v |-> NumStr(n)]

\* An object that is not an array, kept by the values of its properties.
JObj(vals) == [t |-> "object", v |-> vals]

IsString(o) == o # Absent /\ Get(o).t = "string"

IsArray(o) == o # Absent /\ Get(o).t = "array"

\* ------------------------------------------------------------------------
\* The HTTP-backed tools: what each execute sends

HttpTools == {"fetchOrderHistory", "createOrderRecord", "fetchOrderRecord",
              "fetchNearbyRestaurants"}

\* The HTTP-backed tools in each agent's tools array.
agentTools ==
    [a \in Agents |->
        CASE a = orderingAgent -> {"fetchOrderHistory", "createOrderRecord", "fetchOrderRecord"}
          [] a = recommendationAgent -> {"fetchOrderHistory", "fetchNearbyRestaurants"}
          [] a = refundAgent -> {"fetchOrderRecord"}
          [] OTHER -> {}]

NoInput ==
    [limit |-> Absent, customer_name |-> Absent, items |-> Absent,
     promotion_code |-> Absent, order_id |-> Absent, latitude |-> Absent,
     longitude |-> Absent, radius_miles |-> Absent, cuisine |-> Absent]

NoQuery ==
    [orderId |-> Absent, limit |-> Absent, latitude |-> Absent,
     longitude |-> Absent, radiusMiles |-> Absent, cuisine |-> Absent]

\* typeof x === 'number' ? String(x) : not set
NumParam(x) == IF x = Absent THEN Absent ELSE Some(NumStr(Get(x)))

\* JSON.stringify and request.json() of the object createOrderRecord posts:
\* an undefined property is dropped, the others keep type and content.
OrderPayload(input) ==
    [type |-> "object",
     customerName |-> input.customer_name,
     items |-> input.items,
     promotionCode |-> input.promotion_code]

ToolRequest_EachCoordinate(tool, input) ==
    IF tool = "fetchNearbyRestaurants"
      THEN [method |-> "GET", path |-> "/api/restaurants",
            query |-> [NoQuery EXCEPT !.latitude = NumParam(input.latitude),
                                      !.longitude = NumParam(input.longitude),
                                      !.limit = NumParam(input.limit)],
            body |-> None]
      ELSE [method |-> "GET", path |-> "/api/orders", query |-> NoQuery, body |-> None]

\* The request an execute passes to fetch.
ToolRequest(tool, input) ==
    CASE tool = "fetchOrderHistory" ->
            [method |-> "GET", path |-> "/api/orders",
             query |-> [NoQuery EXCEPT !.limit = NumParam(input.limit)],
             body |-> None]
      [] tool = "createOrderRecord" ->
            [method |-> "POST", path |-> "/api/orders", query |-> NoQuery,
             body |-> [kind |-> "json", value |-> OrderPayload(input)]]
      [] tool = "fetchOrderRecord" ->
            [method |-> "GET", path |-> "/api/orders",
             query |-> [NoQuery EXCEPT !.orderId = Some(TemplateStr(input.order_id))],
             body |-> None]
      [] tool = "fetchNearbyRestaurants" ->
            [method |-> "GET", path |-> "/api/restaurants",
             query |->
                [NoQuery EXCEPT
                   !.latitude = IF input.latitude # Absent /\ input.longitude # Absent
                                  THEN NumParam(input.latitude) ELSE Absent,
                   !.longitude = IF input.latitude # Absent /\ input.longitude # Absent
                                   THEN NumParam(input.longitude) ELSE Absent,
                   !.radiusMiles = NumParam(input.radius_miles),
                   !.cuisine = IF input.cuisine # Absent /\ Trim(Get(input.cuisine)) # <<>>
                                 THEN Some(Trim(Get(input.cuisine))) ELSE Absent,
                   !.limit = NumParam(input.limit)],
             body |-> None]

\* The fetch calls one execute makes for its request.
IssueRequests_Twice(req) == <<req, req>>

IssueRequests(req) == <<req>>

\* ------------------------------------------------------------------------
\* The route handlers and the order table

\* Rows the order table holds at most.
MaxOrders == 2

EmptyObject ==
    [type |-> "object", error |-> Absent, details |-> Absent, order |-> Absent,
     orders |-> Absent, restaurants |-> Absent]

JsonNull == [type |-> "null"]

\* NextResponse.json(value, { status })
JsonResponse(code, value) ==
    [kind |-> "http", ok |-> code \in 200..299, status |-> code,
     body |-> [kind |-> "json", value |-> value]]

ErrorResponse(code, msg, details) ==
    JsonResponse(code, [EmptyObject EXCEPT !.error = Some(msg), !.details = details])

\* What the framework answers when a route handler throws.
UncaughtResponse ==
    [kind |-> "http", ok |-> FALSE, status |-> 500,
     body |-> [kind |-> "text", text |-> "Internal Server Error"]]

missingConfigResponse ==
    ErrorResponse(500, "NEON_DATABASE_URL is not configured on the server.", Absent)

\* A query parameter is truthy when it is present and not the empty string.
Truthy(param) == param # Absent /\ Get(param) # <<>>

insertOrder_NoStatus(rows, customerName, promotionCode, items) ==
    Append(rows, [id |-> Len(rows) + 1, status |-> "created",
                  customer_name |-> customerName, promotion_code |-> promotionCode,
                  items |-> items])

insertOrder_Twice(rows, customerName, promotionCode, items) ==
    LET row == [id |-> Len(rows) + 1, status |-> "pending",
                customer_name |-> customerName, promotion_code |-> promotionCode,
                items |-> items]
    IN  rows \o <<row, [row EXCEPT !.id = Len(rows) + 2]>>

\* insertOrder: the row the INSERT ... RETURNING statement adds.
insertOrder(rows, customerName, promotionCode, items) ==
    Append(rows, [id |-> Len(rows) + 1, status |-> "pending",
                  customer_name |-> customerName, promotion_code |-> promotionCode,
                  items |-> items])

\* fetchOrderById: the rows with this id (at most one).
fetchOrderById(rows, orderId) == {rows[i] : i \in {j \in 1..Len(rows) : rows[j].id = orderId}}

\* POST /api/orders: the response and the table afterwards.  dbUp tells
\* whether the statement reaches the database.
OrdersPOST(req, rows, dbUp) ==
    IF ~dbConfigured THEN [resp |-> missingConfigResponse, rows |-> rows]
    ELSE IF req.body.kind # "json"
      THEN [resp |-> ErrorResponse(400, "Invalid JSON payload", Some("SyntaxError")),
            rows |-> rows]
    ELSE IF req.body.value.type = "null"
      THEN [resp |-> UncaughtResponse, rows |-> rows]
    ELSE
      LET payload == req.body.value
          customerName == IF IsString(payload.customerName)
                            THEN Trim(Get(payload.customerName).v) ELSE <<>>
          promotionCode == IF IsString(payload.promotionCode)
                                /\ Trim(Get(payload.promotionCode).v) # <<>>
                             THEN Some(Trim(Get(payload.promotionCode).v)) ELSE Absent
          items == IF IsArray(payload.items) THEN Get(payload.items).v ELSE <<>>
      IN  IF customerName = <<>>
            THEN [resp |-> ErrorResponse(400, "customerName is required", Absent),
                  rows |-> rows]
          ELSE IF items = <<>>
            THEN [resp |-> ErrorResponse(400, "items must contain at least one item", Absent),
                  rows |-> rows]
          ELSE IF ~dbUp
            THEN [resp |-> ErrorResponse(500, "Failed to insert order", Some("db error")),
                  rows |-> rows]
          ELSE
            LET after == insertOrder(rows, customerName, promotionCode, items)
                row == after[Len(after)]
            IN  [resp |-> JsonResponse(201,
                            [EmptyObject EXCEPT !.order =
                               Some([id |-> row.id, status |-> row.status,
                                     promotionCode |-> row.promotion_code])]),
                 rows |-> after]

\* GET /api/orders
OrdersGET(req, rows, dbUp) ==
    IF ~dbConfigured THEN [resp |-> missingConfigResponse, rows |-> rows]
    ELSE IF ~Truthy(req.query.orderId)
      THEN [resp |-> ErrorResponse(400, "orderId query parameter is required", Absent),
            rows |-> rows]
    ELSE
      LET orderId == ParseInt(Get(req.query.orderId))
      IN  IF orderId = Absent
            THEN [resp |-> ErrorResponse(400, "orderId must be a number", Absent),
                  rows |-> rows]
          ELSE IF ~dbUp
            THEN [resp |-> ErrorResponse(500, "Failed to fetch order", Some("db error")),
                  rows |-> rows]
          ELSE
            LET found == fetchOrderById(rows, Get(orderId))
            IN  IF found = {}
                  THEN [resp |-> ErrorResponse(404, "Order not found", Absent), rows |-> rows]
                  ELSE LET row == Get(found)
                       IN  [resp |-> JsonResponse(200,
                                       [EmptyObject EXCEPT !.order =
                                          Some([id |-> row.id, status |-> row.status,
                                                customerName |-> row.customer_name,
                                                promotionCode |-> row.promotion_code,
                                                items |-> row.items])]),
                            rows |-> rows]

\* DEFAULT_LATITUDE, DEFAULT_LONGITUDE
DefaultLocation == <<"DEFAULT_LATITUDE", "DEFAULT_LONGITUDE">>

\* The point GET /api/restaurants measures distances from: the parsed
\* coordinates when the request carries them, else the default location.
SearchOrigin(req) ==
    IF Truthy(req.query.latitude) \/ Truthy(req.query.longitude)
      THEN <<ParseInt(Get(req.query.latitude)), ParseInt(Get(req.query.longitude))>>
      ELSE DefaultLocation

\* GET /api/restaurants: the validation of its parameters; the list it
\* answers with is not computed.
RestaurantsGET(req, rows) ==
    LET q == req.query
        limit == IF Truthy(q.limit) THEN ParseInt(Get(q.limit)) ELSE Some(5)
    IN  IF limit = Absent \/ (limit # Absent /\ Get(limit) <= 0)
          THEN [resp |-> ErrorResponse(400, "limit must be a positive integer", Absent),
                rows |-> rows]
        ELSE IF (Truthy(q.latitude) \/ Truthy(q.longitude))
                  /\ (~Truthy(q.latitude) \/ ~Truthy(q.longitude))
          THEN [resp |-> ErrorResponse(400,
                           "latitude and longitude must be provided together", Absent),
                rows |-> rows]
        ELSE IF Truthy(q.latitude)
                  /\ (ParseInt(Get(q.latitude)) = Absent \/ ParseInt(Get(q.longitude)) = Absent)
          THEN [resp |-> ErrorResponse(400,
                           "latitude and longitude must be valid numbers", Absent),
                rows |-> rows]
        ELSE [resp |-> JsonResponse(200,
                         [EmptyObject EXCEPT !.restaurants = Some("restaurants")]),
              rows |-> rows]

\* The handler the framework routes a request to.
Route(req, rows, dbUp) ==
    CASE req.path = "/api/orders" /\ req.method = "POST" -> OrdersPOST(req, rows, dbUp)
      [] req.path = "/api/orders" /\ req.method = "GET" -> OrdersGET(req, rows, dbUp)
      [] req.path = "/api/restaurants" /\ req.method = "GET" -> RestaurantsGET(req, rows)

\* ------------------------------------------------------------------------
\* The HTTP-backed tools: what each execute returns

\* The message of the failure result when the error body carries none.
DefaultError(tool) ==
    CASE tool = "fetchOrderHistory" -> "Failed to fetch order history"
      [] tool = "createOrderRecord" -> "Failed to store order record"
      [] tool = "fetchOrderRecord" -> "Failed to fetch order record"
      [] tool = "fetchNearbyRestaurants" -> "Failed to fetch nearby restaurants"

\* The message of the failure result built by the catch clause.
UnexpectedError(tool) ==
    CASE tool = "fetchOrderHistory" -> "Unexpected failure while fetching order history"
      [] tool = "createOrderRecord" -> "Unexpected failure while storing order record"
      [] tool = "fetchOrderRecord" -> "Unexpected failure while fetching order record"
      [] tool = "fetchNearbyRestaurants" ->
            "Unexpected failure while fetching nearby restaurants"

\* The property of the success body each execute destructures.
DataKey(tool) ==
    CASE tool = "fetchOrderHistory" -> "orders"
      [] tool = "createOrderRecord" -> "order"
      [] tool = "fetchOrderRecord" -> "order"
      [] tool = "fetchNearbyRestaurants" -> "restaurants"

Returned(success, error, details, data) ==
    [kind |-> "returned", success |-> success, error |-> error, details |-> details,
     data |-> data]

Exception(message) == [kind |-> "exception", message |-> message]

\* The error body of a response that is not ok: the parsed JSON body, else
\* { error: text } for a body with text, else {}.
ErrorBody(resp) ==
    CASE resp.body.kind = "json" -> resp.body.value
      [] resp.body.kind = "text" -> [EmptyObject EXCEPT !.error = Some(resp.body.text)]
      [] resp.body.kind = "empty" -> EmptyObject

\* The try block of an execute, from the settling of fetch on: what it
\* returns or the exception it raises.
TryBlock(tool, resp) ==
    IF resp.kind = "reject" THEN Exception("fetch failed")
    ELSE IF ~resp.ok
      THEN LET errorBody == ErrorBody(resp)
           IN  IF errorBody.type = "null"
                 THEN Exception("Cannot read properties of null")
                 ELSE Returned(FALSE,
                               IF errorBody.error = Absent
                                 THEN Some(DefaultError(tool)) ELSE errorBody.error,
                               errorBody.details, Absent)
    ELSE IF resp.body.kind # "json" THEN Exception("Unexpected end of JSON input")
    ELSE IF resp.body.value.type = "null"
      THEN Exception("Cannot destructure property of null")
    ELSE Returned(TRUE, Absent, Absent, resp.body.value[DataKey(tool)])

\* The catch clause of an execute.
CatchClause_Rethrow(tool, outcome) ==
    IF outcome.kind = "exception" THEN [kind |-> "threw"] ELSE outcome

CatchClause(tool, outcome) ==
    IF outcome.kind = "exception"
      THEN Returned(FALSE, Some(UnexpectedError(tool)), Some(outcome.message), Absent)
      ELSE outcome

ToolResult(tool, resp) == CatchClause(tool, TryBlock(tool, resp))

\* ------------------------------------------------------------------------
\* Tool calls of a connected session

item == [name |-> "Pad Thai", quantity |-> 1]

\* Inputs the model passes to each execute.
ToolInputs(tool) ==
    CASE tool = "fetchOrderHistory" ->
            {[NoInput EXCEPT !.limit = l] : l \in {Absent, Some(1), Some(100)}}
      [] tool = "createOrderRecord" ->
            {[NoInput EXCEPT !.customer_name = n, !.items = i, !.promotion_code = p] :
                n \in {Absent, Some(JStr(<<" ", "A">>)), Some(JStr(<<" ">>))},
                i \in {Some(JArr(<<>>)), Some(JArr(<<item>>))},
                p \in {Absent, Some(JStr(<<"P">>))}}
      [] tool = "fetchOrderRecord" ->
            {[NoInput EXCEPT !.order_id = Some(i)] : i \in 1..(MaxOrders + 1)}
      [] tool = "fetchNearbyRestaurants" ->
            {[NoInput EXCEPT !.latitude = la, !.longitude = lo, !.limit = l] :
                la \in {Absent, Some(0), Some(47)}, lo \in {Absent, Some(0 - 122)},
                l \in {Absent, Some(5)}}

\* Answers that do not come from a route handler: fetch rejects, or a
\* gateway answers in the handler's place.
FaultResponses ==
    {[kind |-> "reject"]}
    \cup {[kind |-> "http", ok |-> FALSE, status |-> 502, body |-> b] :
            b \in {[kind |-> "json", value |-> EmptyObject],
                   [kind |-> "json", value |-> JsonNull],
                   [kind |-> "text", text |-> "Bad Gateway"],
                   [kind |-> "empty"]}}
    \cup {[kind |-> "http", ok |-> TRUE, status |-> 200, body |-> b] :
            b \in {[kind |-> "text", text |-> "<html>"],
                   [kind |-> "json", value |-> JsonNull]}}

\* Requests of HTTP clients other than the tools.
RawRequests ==
    {[method |-> "POST", path |-> "/api/orders", query |-> NoQuery, body |-> b] :
        b \in {[kind |-> "text", text |-> "{"], [kind |-> "json", value |-> JsonNull]}
               \cup {[kind |-> "json",
                      value |-> OrderPayload([NoInput EXCEPT !.customer_name = n,
                                                             !.items = i])] :
                        n \in {Some(JNum(7)), Some(JStr(<<"A">>))},
                        i \in {Some(JObj(<<item>>)), Some(JArr(<<item>>))}}}
    \cup {[method |-> "GET", path |-> "/api/orders",
           query |-> [NoQuery EXCEPT !.orderId = o], body |-> None] :
            o \in {Some(<<>>), Some(<<"a">>)}}
    \cup {[method |-> "GET", path |-> "/api/restaurants",
           query |-> [NoQuery EXCEPT !.latitude = la, !.limit = l], body |-> None] :
            la \in {Absent, Some(<<"4", "7">>)}, l \in {Absent, Some(<<"0">>)}}

\* A session is connected and its listeners are attached: the state after
\* connect(), the resolution of its two awaits and a run of the effects.
Connected ==
    /\ sessionRef = 1
    /\ status = "CONNECTED"
    /\ pc = [c \in Calls |-> IF c = 1 THEN "done" ELSE "idle"]
    /\ closed = {}
    /\ registered = 1
    /\ toolInFlight = {}
    /\ activeAgent = rootAgent
    /\ rejectedItems = 0
    /\ keyCalls = 1
    /\ lastOp = "effect"
    /\ lastErr = "none"
    /\ notified = <<>>
    /\ sentEv = <<>>
    /\ dispatched = NoSession
    /\ ek = [c \in Calls |-> IF c = 1 THEN 1 ELSE 0]
    /\ sessions = [c \in Calls |-> IF c = 1 THEN NewSession(rootAgent, 1) ELSE None]

ToolInit ==
    /\ Connected
    /\ dbConfigured \in BOOLEAN
    /\ ToolIdle
    /\ HistIdle

\* The active agent transfers to an agent of its handoffs.
ToolHandoff(a) ==
    /\ tpc \in {"idle", "done"}
    /\ a \in handoffs[activeAgent]
    /\ activeAgent' = a
    /\ lastOp' = "handoff"
    /\ UNCHANGED <<hookVars, toolVars, histVars>>

\* The active agent calls one of its tools: execute runs up to `await fetch`.
ToolInvoke(tool, input) ==
    /\ tpc \in {"idle", "done"}
    /\ tool \in agentTools[activeAgent]
    /\ tcall' = [kind |-> "call", tool |-> tool, input |-> input]
    /\ requests' = IssueRequests(ToolRequest(tool, input))
    /\ response' = None
    /\ result' = None
    /\ tpc' = "awaitFetch"
    /\ lastOp' = "toolInvoke"
    /\ UNCHANGED <<hookVars, histVars, activeAgent, dbConfigured, orders>>

\* The route handler answers the request.
RouteResponds(dbUp) ==
    /\ tpc = "awaitFetch"
    /\ LET r == Route(requests[Len(requests)], orders, dbUp)
       IN  /\ Len(r.rows) <= MaxOrders
           /\ response' = r.resp
           /\ orders' = r.rows
    /\ tpc' = "responded"
    /\ lastOp' = "routeResponds"
    /\ UNCHANGED <<hookVars, histVars, activeAgent, dbConfigured, tcall, requests, result>>

\* The request is answered without reaching the route handler.
FaultResponds(f) ==
    /\ tpc = "awaitFetch"
    /\ response' = f
    /\ tpc' = "responded"
    /\ lastOp' = "faultResponds"
    /\ UNCHANGED <<hookVars, histVars, activeAgent, dbConfigured, orders, tcall, requests,
                   result>>

\* execute resumes after `await fetch` and runs to its end.
ToolComplete ==
    /\ tpc = "responded"
    /\ result' = ToolResult(tcall.tool, response)
    /\ tpc' = "done"
    /\ lastOp' = "toolComplete"
    /\ UNCHANGED <<hookVars, histVars, activeAgent, dbConfigured, orders, tcall, requests,
                   response>>

\* Another HTTP client sends a request to a route.
RawRequest(req, dbUp) ==
    /\ tpc \in {"idle", "done"}
    /\ LET r == Route(req, orders, dbUp)
       IN  /\ Len(r.rows) <= MaxOrders
           /\ response' = r.resp
           /\ orders' = r.rows
    /\ tcall' = None
    /\ requests' = <<req>>
    /\ result' = None
    /\ tpc' = "idle"
    /\ lastOp' = "rawRequest"
    /\ UNCHANGED <<hookVars, histVars, activeAgent, dbConfigured>>

ToolNext ==
    \/ \E a \in Agents : ToolHandoff(a)
    \/ \E tool \in HttpTools : \E input \in ToolInputs(tool) : ToolInvoke(tool, input)
    \/ \E dbUp \in BOOLEAN : RouteResponds(dbUp)
    \/ \E f \in FaultResponses : FaultResponds(f)
    \/ ToolComplete
    \/ \E req \in RawRequests, dbUp \in BOOLEAN : RawRequest(req, dbUp)

ToolSpec == ToolInit /\ [][ToolNext]_vars

\* execute runs on once its await has settled; nothing obliges the endpoint
\* to answer.
FairToolSpec == ToolSpec /\ WF_vars(ToolComplete)

\* ------------------------------------------------------------------------
\* Properties of the tools, the routes and the handoff graph

\* The answer is the one the route handler gives to the execute's request
\* when the database is reachable.
Served == response = Route(requests[1], orders, TRUE).resp

\* C11: whatever the endpoint answers, an execute that has ended has
\* returned a result and thrown nothing: success with the data of a 2xx JSON
\* body, or failure with the error of the answer's body or else one of the
\* tool's own messages; the session status is still CONNECTED.
C11_ToolsReturnResults ==
    tpc = "done" =>
        /\ result.kind = "returned"
        /\ status = "CONNECTED"
        /\ result.success =>
              /\ response.kind = "http" /\ response.ok
              /\ result.data = response.body.value[DataKey(tcall.tool)]
        /\ ~result.success =>
              /\ result.error # Absent
              /\ \/ Get(result.error) \in
                       {DefaultError(tcall.tool), UnexpectedError(tcall.tool)}
                 \/ /\ response.kind = "http" /\ ~response.ok
                    /\ \/ /\ response.body.kind = "json"
                          /\ response.body.value.type = "object"
                          /\ result.error = response.body.value.error
                       \/ /\ response.body.kind = "text"
                          /\ Get(result.error) = response.body.text

C11_Witness ==
    /\ tpc = "done"
    /\ response.kind = "http"
    /\ ~response.ok
    /\ response.body.kind = "json"
    /\ response.body.value.type = "null"
    /\ result.kind = "returned"
    /\ ~result.success

\* C12: an execute issues at most one request, and exactly one by the time
\* it has ended, whatever the outcome.
C12_NoRetry ==
    /\ Len(requests) <= 1
    /\ tpc \in {"awaitFetch", "responded", "done"} => Len(requests) = 1

C12_Witness ==
    /\ tpc = "done"
    /\ result.kind = "returned"
    /\ ~result.success
    /\ Len(requests) = 1

\* C13: an execute that waits for the endpoint's answer eventually ends.
C13_ToolEventuallyEnds == (tpc = "awaitFetch") ~> (tpc = "done")

\* C14: every stored order keeps its id and the status 'pending'; the order
\* createOrderRecord reports is stored under the id it returns; and
\* fetchOrderRecord called with the id of a stored order, by whichever agent is
\* active, returns that id and 'pending' when it succeeds, and succeeds when
\* the route and the database answer.
C14_OrderVisibleAfterHandoffs ==
    /\ \A i \in 1..Len(orders) : orders[i].id = i /\ orders[i].status = "pending"
    /\ (tpc = "done" /\ tcall.tool = "createOrderRecord" /\ result.success) =>
          /\ Get(result.data).id \in 1..Len(orders)
          /\ Get(result.data).status = "pending"
    /\ (tpc = "done" /\ tcall.tool = "fetchOrderRecord"
            /\ Get(tcall.input.order_id) \in 1..Len(orders)) =>
          /\ result.success =>
                /\ Get(result.data).id = Get(tcall.input.order_id)
                /\ Get(result.data).status = "pending"
          /\ (dbConfigured /\ Served) => result.success

C14_Witness ==
    /\ tpc = "done"
    /\ tcall.tool = "fetchOrderRecord"
    /\ activeAgent = refundAgent
    /\ result.kind = "returned"
    /\ result.success
    /\ Get(result.data).id = 1
    /\ Get(result.data).status = "pending"

\* Every handoff target of graph g is an agent of scenario sc, and the names
\* of sc are pairwise distinct.
Closed(sc, g) ==
    /\ \A i \in 1..Len(sc) : g[sc[i]] \subseteq {sc[j] : j \in 1..Len(sc)}
    /\ \A i, j \in 1..Len(sc) : i # j => sc[i] # sc[j]

\* C15: every agent in any agent's handoffs is a member of the scenario and
\* agent names are pairwise distinct, so a handoff never leaves the scenario.
C15_HandoffsClosed ==
    /\ Closed(doorDashMultiAgentScenario, handoffs)
    /\ Closed(earlierScenario, earlierHandoffs)
    /\ activeAgent \in Agents

C15_Witness ==
    /\ lastOp = "handoff"
    /\ activeAgent = promoAgent

\* C16: if B is in A's handoffs then A is in B's handoffs: whichever agent
\* is active, every agent it may hand off to may hand back to it.
C16_Symmetric ==
    \A b \in Agents : b \in handoffs[activeAgent] => activeAgent \in handoffs[b]

\* C16 amended: the same, except that refundAgent hands off to promoAgent
\* and promoAgent does not hand off to refundAgent.
C16_SymmetricButRefundPromo ==
    /\ \A a, b \in Agents :
          (b \in handoffs[a] /\ <<a, b>> # <<refundAgent, promoAgent>>) =>
              a \in handoffs[b]
    /\ promoAgent \in handoffs[refundAgent]
    /\ refundAgent \notin handoffs[promoAgent]
    /\ lastOp = "handoff" => \E a \in Agents : activeAgent \in handoffs[a]

C16_Witness ==
    /\ lastOp = "handoff"
    /\ activeAgent = promoAgent
    /\ refundAgent \notin handoffs[activeAgent]
    /\ tpc = "done"

\* C19: with the endpoint configured and the database reachable,
\* fetchOrderHistory returns success with an orders list.
C19_OrderHistorySucceeds ==
    (tpc = "done" /\ tcall.tool = "fetchOrderHistory" /\ dbConfigured /\ Served) =>
        /\ result.success
        /\ result.data # Absent

\* C20: every answer of a route handler that is not a success has a non-2xx
\* status and a JSON object body with an error and no success data.
C20_StructuredErrors ==
    (response.kind = "http" /\ response \notin FaultResponses /\ ~response.ok) =>
        /\ response.status \notin 200..299
        /\ response.body.kind = "json"
        /\ response.body.value.type = "object"
        /\ response.body.value.error # Absent
        /\ response.body.value.order = Absent
        /\ response.body.value.orders = Absent
        /\ response.body.value.restaurants = Absent

\* ------------------------------------------------------------------------
\* Inbound transport events: transcript and audit log

\* Characters a transcript item holds at most.
MaxText == 5

\* Utterance identifiers.
MaxItems == 2

ItemIds == 1..MaxItems

\* What handleTransportEvent does with an event of this type.
TranscriptHandler_DoneAsDelta(type) ==
    CASE type = "conversation.item.input_audio_transcription.completed" -> "completed"
      [] type = "response.audio_transcript.done" -> "delta"
      [] type = "response.audio_transcript.delta" -> "delta"
      [] OTHER -> "none"

TranscriptHandler(type) ==
    CASE type = "conversation.item.input_audio_transcription.completed" -> "completed"
      [] type = "response.audio_transcript.done" -> "completed"
      [] type = "response.audio_transcript.delta" -> "delta"
      [] OTHER -> "none"

\* Positions of the items of this identifier.
ItemsOf(hist, id) == {i \in 1..Len(hist) : hist[i].itemId = id}

\* historyHandlers.handleTranscriptionDelta: the text is appended to the open
\* item of the identifier; an item is opened when there is none; a finished
\* item is left alone.
handleTranscriptionDelta(hist, ev) ==
    IF ItemsOf(hist, ev.item_id) = {}
      THEN Append(hist, [itemId |-> ev.item_id, text |-> ev.text, status |-> "IN_PROGRESS"])
      ELSE [i \in 1..Len(hist) |->
              IF hist[i].itemId = ev.item_id /\ hist[i].status = "IN_PROGRESS"
                THEN [hist[i] EXCEPT !.text = hist[i].text \o ev.text]
                ELSE hist[i]]

\* historyHandlers.handleTranscriptionCompleted: the open item of the
\* identifier takes the final text and is finished; a finished item is
\* created when there is none.
handleTranscriptionCompleted(hist, ev) ==
    IF ItemsOf(hist, ev.item_id) = {}
      THEN Append(hist, [itemId |-> ev.item_id, text |-> ev.text, status |-> "DONE"])
      ELSE [i \in 1..Len(hist) |->
              IF hist[i].itemId = ev.item_id /\ hist[i].status = "IN_PROGRESS"
                THEN [hist[i] EXCEPT !.text = ev.text, !.status = "DONE"]
                ELSE hist[i]]

\* handleTransportEvent
handleTransportEvent(hist, ev) ==
    CASE TranscriptHandler(ev.type) = "completed" -> handleTranscriptionCompleted(hist, ev)
      [] TranscriptHandler(ev.type) = "delta" -> handleTranscriptionDelta(hist, ev)
      [] OTHER -> hist

\* Listeners the effects attach to session.transport for '*'.
TransportStarListeners == <<"logTransportEvent">>

\* Listeners the effects attach to the session for 'transport_event', in
\* the order of their registration.
TransportEventListeners == <<"handleTransportEvent", "logTransportEvent">>

\* The listeners an inbound event reaches: those of the transport's '*', then
\* those of the 'transport_event' the session relays it as.
ReachedListeners == TransportStarListeners \o TransportEventListeners

\* The result of calling each of the listeners in ls that is named name.
Calls_(ls, name) == SelectSeq(ls, LAMBDA l : l = name)

He == <<"H", "e">>

llo == <<"l", "l", "o">>

Hello == <<"H", "e", "l", "l", "o">>

\* Inbound events of the model.
TransportEvents ==
    {[type |-> "response.audio_transcript.delta", item_id |-> id, text |-> t] :
        id \in ItemIds, t \in {He, llo}}
    \cup {[type |-> ty, item_id |-> id, text |-> t] :
            ty \in {"conversation.item.input_audio_transcription.completed",
                    "response.audio_transcript.done"},
            id \in ItemIds, t \in {Hello, He}}
    \cup {[type |-> ty, item_id |-> id, text |-> He] :
            ty \in {"conversation.item.input_audio_transcription.delta",
                    "input_audio_buffer.speech_started"},
            id \in ItemIds}

HistInit ==
    /\ Connected
    /\ dbConfigured = TRUE
    /\ ToolIdle
    /\ HistIdle

\* The transport of the held session receives an event and every listener
\* it reaches runs.  The transport sends the final text of an utterance once.
TransportEvent(ev) ==
    /\ sessionRef # NoSession
    /\ registered = sessionRef
    /\ TranscriptHandler(ev.type) = "completed" =>
          \A i \in ItemsOf(history, ev.item_id) : history[i].status # "DONE"
    /\ LET handled == IF Len(Calls_(ReachedListeners, "handleTransportEvent")) = 0
                        THEN history
                        ELSE handleTransportEvent(history, ev)
       IN  /\ \A i \in 1..Len(handled) : Len(handled[i].text) <= MaxText
           /\ history' = handled
    /\ logged' = [i \in 1..Len(Calls_(ReachedListeners, "logTransportEvent")) |-> ev]
    /\ lastOp' = "transportEvent"
    /\ UNCHANGED <<hookVars, toolVars, activeAgent>>

\* The effects run again and re-attach the listeners to the held session.
HistRunEffects ==
    /\ registered' = sessionRef
    /\ lastOp' = "effect"
    /\ logged' = <<>>
    /\ UNCHANGED <<sessionRef, status, pc, closed, toolInFlight, rejectedItems, keyCalls,
                   lastErr, notified, sentEv, dispatched, toolVars, activeAgent, history,
                   connVars>>

HistNext ==
    \/ \E ev \in TransportEvents : TransportEvent(ev)
    \/ HistRunEffects

HistSpec == HistInit /\ [][HistNext]_vars

\* C17: no identifier has two items, and once the final text of an
\* identifier has arrived, after any deltas, the history holds exactly one
\* item of that identifier, finished, whose text is the final text.
C17_OneItemWithFinalText ==
    /\ \A id \in ItemIds : Cardinality(ItemsOf(history, id)) <= 1
    /\ (lastOp = "transportEvent" /\ logged # <<>>
            /\ logged[1].type \in {"conversation.item.input_audio_transcription.completed",
                                  "response.audio_transcript.done"}) =>
          /\ Cardinality(ItemsOf(history, logged[1].item_id)) = 1
          /\ \A i \in ItemsOf(history, logged[1].item_id) :
                history[i].text = logged[1].text /\ history[i].status = "DONE"

C17_Witness ==
    /\ lastOp = "transportEvent"
    /\ logged # <<>>
    /\ logged[1].type = "response.audio_transcript.done"
    /\ logged[1].text = Hello
    /\ history = <<[itemId |-> 1, text |-> Hello, status |-> "DONE"]>>

\* C18: each inbound transport event is passed to logServerEvent exactly
\* once.
C18_LoggedOnce ==
    lastOp = "transportEvent" => Len(logged) = 1

\* ------------------------------------------------------------------------
\* Further properties of connect, disconnect and the message helpers

\* connect() invocations that have passed the guard.
passedGuard == {c \in Calls : pc[c] \notin {"idle", "skipped"}}

\* C21: every connect() that passes the guard makes one invocation of the
\* credential provider, its own; the session it constructs starts with
\* initialAgents[0] and its transport connects with the key of that
\* invocation; and status becomes CONNECTED only in the step in which the
\* transport connect of a constructed session resolves.
C21_ConnectSequence ==
    /\ [](/\ keyCalls = Cardinality(passedGuard)
          /\ \A c \in passedGuard : ek[c] \in 1..keyCalls
          /\ \A c, d \in passedGuard : c # d => ek[c] # ek[d]
          /\ \A c \in Calls \ passedGuard : ek[c] = 0
          /\ \A c \in constructed :
                /\ sessions[c].agent = doorDashMultiAgentScenario[1]
                /\ sessions[c].apiKey = ek[c]
          /\ \A c \in Calls \ constructed : sessions[c] = None)
    /\ [][(status' = "CONNECTED" /\ status # "CONNECTED") =>
            \E c \in constructed : pc[c] = "awaitConnect" /\ pc'[c] = "done"]_vars

C21_Witness ==
    /\ lastOp = "transportResolved"
    /\ status = "CONNECTED"
    /\ sessionRef = 2
    /\ pc[2] = "done"
    /\ ek[2] = 2
    /\ sessions[2] = NewSession(conciergeAgent, 2)

\* The helpers that reach the session through sessionRef.current.
Helpers == {"interrupt", "mute", "sendEvent", "pushToTalkStart", "pushToTalkStop"}

\* C22: interrupt, mute, sendEvent, pushToTalkStart and pushToTalkStop leave
\* status and sessionRef as they are, and with no session held they send
\* nothing, notify nothing and raise no error.
C22_HelpersKeepConnectionState ==
    [][lastOp' \in Helpers =>
          /\ status' = status
          /\ sessionRef' = sessionRef
          /\ pc' = pc
          /\ closed' = closed
          /\ sessionRef = NoSession =>
                /\ sentEv' = <<>>
                /\ notified' = <<>>
                /\ lastErr' = "none"]_vars

C22_Witness ==
    /\ lastOp = "interrupt"
    /\ sessionRef = NoSession
    /\ status = "CONNECTING"
    /\ sentEv = <<>>
    /\ lastErr = "none"

\* C23: in the step that follows disconnect(), unless it is a connect()
\* call, status stays DISCONNECTED and sessionRef stays null.
C23_NothingInstalledAfterDisconnect ==
    [][(lastOp = "disconnect" /\ lastOp' # "connect") =>
          /\ status' = "DISCONNECTED"
          /\ sessionRef' = NoSession]_vars

\* C24: when status is CONNECTED, sessionRef holds a session whose transport
\* connect has resolved and which has not been closed.
C24_ConnectedMeansHeldSessionUp ==
    status = "CONNECTED" =>
        /\ sessionRef # NoSession
        /\ sessionRef \in transportUp \ closed

\* ------------------------------------------------------------------------
\* Further properties of the handoff graph, the tools and the routes

\* The agents of set S and those one handoff of graph g away from them.
Successors(g, S) == S \cup UNION {g[a] : a \in S}

\* The agents reachable from those of S by handoffs of graph g.
RECURSIVE Reachable(_, _)
Reachable(g, S) == IF Successors(g, S) = S THEN S ELSE Reachable(g, Successors(g, S))

\* C25: every agent of the scenario is reachable from conciergeAgent by
\* permitted handoffs, conciergeAgent is reachable from every agent, and the
\* agent a sequence of handoffs has made active always has a handoff to make
\* and a way back to conciergeAgent.
C25_StronglyConnected ==
    /\ doorDashMultiAgentScenario[1] = conciergeAgent
    /\ Reachable(handoffs, {conciergeAgent}) = Agents
    /\ \A a \in Agents : conciergeAgent \in Reachable(handoffs, {a})
    /\ handoffs[activeAgent] # {}
    /\ Reachable(handoffs, {activeAgent}) = Agents

C25_Witness ==
    /\ lastOp = "handoff"
    /\ activeAgent = refundAgent
    /\ conciergeAgent \in handoffs[activeAgent]

TogetherError == "latitude and longitude must be provided together"

\* C26: the request of fetchNearbyRestaurants carries latitude and longitude
\* together or not at all, so the endpoint does not answer it with the
\* 'provided together' rejection; with one coordinate missing from the input
\* the request carries neither and the endpoint searches from its default
\* location, and with both it searches from the coordinates of the input.
C26_CoordinatesTogether ==
    (tcall.kind = "call" /\ tcall.tool = "fetchNearbyRestaurants") =>
        LET q == requests[1].query
            input == tcall.input
            answer == Route(requests[1], orders, TRUE).resp
        IN  /\ (q.latitude = Absent) <=> (q.longitude = Absent)
            /\ Truthy(q.latitude) <=> Truthy(q.longitude)
            /\ answer.body.value.error # Some(TogetherError)
            /\ (input.latitude = Absent \/ input.longitude = Absent) =>
                  /\ q.latitude = Absent
                  /\ q.longitude = Absent
                  /\ SearchOrigin(requests[1]) = DefaultLocation
            /\ (input.latitude # Absent /\ input.longitude # Absent) =>
                  SearchOrigin(requests[1]) = <<input.latitude, input.longitude>>
            /\ (tpc = "done" /\ Served) =>
                  /\ result.error # Some(TogetherError)
                  /\ input.limit = Absent => result.success

C26_Witness ==
    /\ tpc = "done"
    /\ tcall.tool = "fetchNearbyRestaurants"
    /\ tcall.input.latitude = Some(0)
    /\ tcall.input.longitude = Absent
    /\ requests[1].query.latitude = Absent
    /\ result.kind = "returned"
    /\ result.success

\* The request a route handler answers in a step.
Answered == requests'[Len(requests')]

\* A step in which the POST handler of /api/orders answers a request.
PostAnswered ==
    /\ lastOp' \in {"routeResponds", "rawRequest"}
    /\ Answered.method = "POST"
    /\ Answered.path = "/api/orders"

\* C27: the order table changes only in a step in which POST /api/orders
\* answers 201, to a request with a JSON object whose customerName is a
\* string that is not empty after trimming and whose items is a non-empty
\* array, with the store configured; that step appends exactly one row, with
\* the status 'pending' and the id the answer reports, and changes no other
\* row; every other answer of the handler leaves the table as it is.
C27_InsertOnlyOnSuccess ==
    [][/\ orders' # orders =>
            /\ PostAnswered
            /\ response'.status = 201
            /\ dbConfigured
            /\ Answered.body.kind = "json"
            /\ Answered.body.value.type = "object"
            /\ IsString(Answered.body.value.customerName)
            /\ Trim(Get(Answered.body.value.customerName).v) # <<>>
            /\ IsArray(Answered.body.value.items)
            /\ Get(Answered.body.value.items).v # <<>>
       /\ (PostAnswered /\ response'.status = 201) =>
            /\ Len(orders') = Len(orders) + 1
            /\ SubSeq(orders', 1, Len(orders)) = orders
            /\ orders'[Len(orders')].status = "pending"
            /\ Get(response'.body.value.order).id = orders'[Len(orders')].id
            /\ Get(response'.body.value.order).status = "pending"
       /\ (PostAnswered /\ response'.status # 201) => orders' = orders]_vars

C27_Witness ==
    /\ tpc = "done"
    /\ tcall.tool = "createOrderRecord"
    /\ tcall.input.customer_name = Some(JStr(<<" ">>))
    /\ response.kind = "http"
    /\ response.status = 400
    /\ Len(orders) = 1
    /\ orders[1].status = "pending"

====
